---- MODULE Spec2Model ----
(***************************************************************************)
(* Crosshairs of the rbc graph widget (generic/tko/tkoGraphHairs.c).       *)
(*                                                                         *)
(* The crosshair record, the graph fields the crosshair code reads, and    *)
(* the X server calls it issues are modelled as a state machine with one   *)
(* action per exported routine and per Tcl sub-command.                    *)
(*                                                                         *)
(* Win32 printer access (tkWinPrint.c, WinCanvasPrint and WinTextPrint) is *)
(* modelled as a second state machine, PrintSpec, that steps through one   *)
(* invocation of either command, each Win32 call ending with one of the    *)
(* outcomes it can have.                                                   *)
(***************************************************************************)
EXTENDS Integers, Sequences, FiniteSets, TLC

\* ---------------------------------------------------------------- bounds
\* Coordinates range over -1..MaxCoord (the hot spot starts at -1,-1).
MaxCoord == 2
\* XDrawSegments calls are counted modulo 2 * MaxDrawPairs, which keeps the
\* parity of the count.
MaxDrawPairs == 1

\* ---------------------------------------------------------------- values
Coords == -1 .. MaxCoord
DrawWrap == 2 * MaxDrawPairs
\* Hot spots a -position option may name: the points of the column x = 1 and
\* of the row y = 1 (inside a plot area or off one of its four sides), and the
\* initial hot spot -1,-1.
Points ==
    { p \in [x : Coords, y : Coords] :
        \/ p.x = 1 \/ p.y = 1 \/ (p.x = -1 /\ p.y = -1) }
Pixels == {0, 1}
LineWidths == {0, 2}
NoDashes == << >>
DashValues == {NoDashes, <<2>>}
NullGC == [null |-> TRUE]
NullColor == [null |-> TRUE]
Color(p) == [null |-> FALSE, pixel |-> p]
TCL_OK == "TCL_OK"
TCL_ERROR == "TCL_ERROR"

\* Plot areas the graph layout may compute (graph->left, right, top, bottom).
PlotAreas ==
    { [left |-> 0, right |-> 1, top |-> 0, bottom |-> 1],
      [left |-> 1, right |-> 2, top |-> 1, bottom |-> 2] }

BadValue == "bad"

OptionNames == {"-color", "-dashes", "-hide", "-linewidth", "-position"}

OptionValues(o) ==
    CASE o = "-color" -> Pixels
      [] o = "-dashes" -> DashValues
      [] o = "-hide" -> BOOLEAN
      [] o = "-linewidth" -> LineWidths
      [] o = "-position" -> Points

\* The option/value lists of one configure command, as functions from option
\* names to values of their types: each option alone, and -hide together with
\* -position.
ArgLists ==
    UNION { { [n \in {o} |-> v] : v \in OptionValues(o) } : o \in OptionNames }
    \cup { [n \in {"-hide", "-position"} |-> IF n = "-hide" THEN h ELSE p] :
             h \in BOOLEAN, p \in Points }

\* Lists naming one option with a value that does not parse.
BadArgLists == { [n \in {o} |-> BadValue] : o \in OptionNames }

VARIABLES
    graph,      \* the RbcGraph fields read here: win, mapped, plot area, plotBg
    chPtr,      \* the RbcCrosshairs record
    nDraws,     \* number of XDrawSegments calls issued since create
    intact,     \* context and segments unchanged since the draw that made the overlay visible
    lastOp,     \* the operation that produced this state
    rc,         \* its Tcl result (TCL_OK for the void routines)
    drew,       \* XDrawSegments calls it issued
    argsOk,     \* whether its option arguments parsed
    twice,      \* whether the operation before it was the same operation
    gcs         \* the private GCs: how many are unreleased, and their misuse

vars == <<graph, chPtr, nDraws, intact, lastOp, rc, drew, argsOk, twice, gcs>>

\* One invocation of a print command.
VARIABLES
    pc,         \* the statement the command is at
    gdi,        \* per handle: times acquired and times released
    job,        \* documents and pages started and ended on the printer DC
    calls,      \* the dialog and printer calls issued, in order
    result,     \* the Tcl result returned, or "none"
    msg,        \* whether a message was left in the interpreter result
    failed,     \* whether a step failed, and what was called after that
    snap,       \* canvas-print: window and printable size, destination size
    txt         \* text-print: buffer length, cursor, search range, output

pvars == <<pc, gdi, job, calls, result, msg, failed, snap, txt>>

\* ------------------------------------------------------------- helpers
RECURSIVE BitXor(_, _)
BitXor(a, b) ==
    IF a = 0 THEN b
    ELSE IF b = 0 THEN a
    ELSE (((a % 2) + (b % 2)) % 2) + (2 * BitXor(a \div 2, b \div 2))

WhitePixelOfScreen == 1

RbcLineWidth(w) == IF w > 1 THEN w ELSE 0

RbcLineIsDashed(d) == Len(d) > 0

WinIsNull(g) == ~g.win

Tk_IsMapped(g) == g.win /\ g.mapped

OffGraph(p, g) ==
    \/ p.x > g.right
    \/ p.x < g.left
    \/ p.y > g.bottom
    \/ p.y < g.top

\* One XDrawSegments call with the record's context and segments: what is
\* on the screen afterwards was drawn with the record's current values, or
\* nothing is.
XDrawSegments(st) ==
    [st EXCEPT !.calls = (@ + 1) % DrawWrap,
               !.drew = @ + 1,
               !.intact = TRUE,
               !.gcs.nullDraw = @ \/ st.ch.gc = NullGC,
               !.gcs.staleDraw = @ \/ (st.ch.gc # NullGC /\ ~st.gcs.live)]

\* An assignment to the record's context or segments: while the overlay is
\* drawn, a changed value is no longer the one it was drawn with.
Assign(st, ch) ==
    [st EXCEPT !.ch = ch,
               !.intact = @ /\ (st.ch.visible =>
                                  (ch.gc = st.ch.gc /\ ch.segArr = st.ch.segArr))]

\* --------------------------------------------------- the static routines
\* TurnOffHairs without the assignment visible = FALSE.
TurnOffHairs_KeepsVisible(g, st) ==
    IF Tk_IsMapped(g) /\ st.ch.visible THEN XDrawSegments(st) ELSE st

TurnOffHairs(g, st) ==
    IF Tk_IsMapped(g) /\ st.ch.visible
    THEN [XDrawSegments(st) EXCEPT !.ch.visible = FALSE]
    ELSE st

\* TurnOnHairs without the test of visible.
TurnOnHairs_NoVisibleTest(g, st) ==
    IF WinIsNull(g) THEN st
    ELSE IF Tk_IsMapped(g)
    THEN IF OffGraph(st.ch.hotSpot, g)
         THEN st
         ELSE [XDrawSegments(st) EXCEPT !.ch.visible = TRUE]
    ELSE st

TurnOnHairs(g, st) ==
    IF WinIsNull(g) THEN st
    ELSE IF Tk_IsMapped(g) /\ ~st.ch.visible
    THEN IF OffGraph(st.ch.hotSpot, g)
         THEN st
         ELSE [XDrawSegments(st) EXCEPT !.ch.visible = TRUE]
    ELSE st

\* RbcGetPrivateGC with the values RbcConfigureCrosshairs collects.
NewGC(g, ch) ==
    LET colorValue == IF g.plotBg = NullColor
                      THEN WhitePixelOfScreen
                      ELSE g.plotBg.pixel
    IN [null |-> FALSE,
        background |-> colorValue,
        foreground |-> BitXor(colorValue, ch.colorPtr),
        line_width |-> RbcLineWidth(ch.lineWidth),
        dashes |-> IF RbcLineIsDashed(ch.dashes) THEN ch.dashes ELSE NoDashes]

\* No private GC has been allocated, released or drawn with.
NoContexts ==
    [owned |-> 0, live |-> FALSE, doubleFree |-> FALSE, nullDraw |-> FALSE,
     staleDraw |-> FALSE, destroyed |-> FALSE]

\* RbcGetPrivateGC: one more unreleased context, which the record is about
\* to point to.
RbcGetPrivateGC(st) ==
    [st EXCEPT !.gcs.owned = @ + 1]

\* RbcFreePrivateGC(display, chPtr->gc).
RbcFreePrivateGC(st) ==
    IF st.gcs.live
    THEN [st EXCEPT !.gcs.owned = @ - 1, !.gcs.live = FALSE]
    ELSE [st EXCEPT !.gcs.doubleFree = TRUE]

\* newGC = RbcGetPrivateGC(...); if (chPtr->gc != NULL) RbcFreePrivateGC(...);
\* chPtr->gc = newGC;
InstallGC(g, st) ==
    LET got == RbcGetPrivateGC(st)
        freed == IF st.ch.gc # NullGC THEN RbcFreePrivateGC(got) ELSE got
    IN  [freed EXCEPT !.ch.gc = NewGC(g, st.ch), !.gcs.live = TRUE]

SetSegments(g, ch) ==
    [ch EXCEPT !.segArr =
        << [x1 |-> ch.hotSpot.x, y1 |-> g.bottom,
            x2 |-> ch.hotSpot.x, y2 |-> g.top],
           [x1 |-> g.left, y1 |-> ch.hotSpot.y,
            x2 |-> g.right, y2 |-> ch.hotSpot.y] >>]

\* ------------------------------------------------- the exported routines
\* RbcConfigureCrosshairs without the TurnOffHairs call before the changes.
RbcConfigureCrosshairs_NoErase(g, st) ==
    IF WinIsNull(g) THEN st
    ELSE LET new == InstallGC(g, st)
             set == Assign([new EXCEPT !.ch = st.ch], SetSegments(g, new.ch))
         IN IF ~set.ch.hidden THEN TurnOnHairs(g, set) ELSE set

RbcConfigureCrosshairs(g, st) ==
    IF WinIsNull(g) THEN st
    ELSE LET off == TurnOffHairs(g, st)
             new == InstallGC(g, off)
             set == Assign([new EXCEPT !.ch = off.ch], SetSegments(g, new.ch))
         IN IF ~set.ch.hidden THEN TurnOnHairs(g, set) ELSE set

RbcEnableCrosshairs(g, st) ==
    IF ~st.ch.hidden THEN TurnOnHairs(g, st) ELSE st

RbcDisableCrosshairs(g, st) ==
    IF WinIsNull(g) THEN st
    ELSE IF ~st.ch.hidden THEN TurnOffHairs(g, st) ELSE st

\* RbcUpdateCrosshairs that also moves the hairs to the hot spot.
RbcUpdateCrosshairs_MovesHotSpot(g, st) ==
    Assign(st, SetSegments(g, st.ch))

RbcUpdateCrosshairs(g, st) ==
    Assign(st, [st.ch EXCEPT !.segArr =
        << [st.ch.segArr[1] EXCEPT !.y1 = g.bottom, !.y2 = g.top],
           [st.ch.segArr[2] EXCEPT !.x1 = g.left, !.x2 = g.right] >>])

\* RbcDestroyCrosshairs that does not release the context.
RbcDestroyCrosshairs_KeepsGC(g, st) ==
    [st EXCEPT !.gcs.destroyed = TRUE]

\* RbcDestroyCrosshairs: the options and the context are released and the
\* record is freed; nothing is drawn.
RbcDestroyCrosshairs(g, st) ==
    LET freed == IF st.ch.gc # NullGC THEN RbcFreePrivateGC(st) ELSE st
    IN  [freed EXCEPT !.gcs.destroyed = TRUE]

\* RbcCreateCrosshairs with the hot spot at the origin of the window.
RbcCreateCrosshairs_HotSpotAtOrigin ==
    [hotSpot |-> [x |-> 0, y |-> 0],
     visible |-> FALSE,
     hidden |-> TRUE,
     dashes |-> NoDashes,
     lineWidth |-> 0,
     segArr |-> << [x1 |-> 0, y1 |-> 0, x2 |-> 0, y2 |-> 0],
                   [x1 |-> 0, y1 |-> 0, x2 |-> 0, y2 |-> 0] >>,
     colorPtr |-> 0,
     gc |-> NullGC]

\* The record RbcCreateCrosshairs leaves: zeroed by RbcCalloc, hidden, hot
\* spot at -1,-1, and the option defaults (black, solid, width 0).
RbcCreateCrosshairs ==
    [hotSpot |-> [x |-> -1, y |-> -1],
     visible |-> FALSE,
     hidden |-> TRUE,
     dashes |-> NoDashes,
     lineWidth |-> 0,
     segArr |-> << [x1 |-> 0, y1 |-> 0, x2 |-> 0, y2 |-> 0],
                   [x1 |-> 0, y1 |-> 0, x2 |-> 0, y2 |-> 0] >>,
     colorPtr |-> 0,
     gc |-> NullGC]

\* ------------------------------------------------------ the sub-commands
\* Tk_ConfigureWidget with TK_CONFIG_ARGV_ONLY: on success the named fields
\* hold the parsed values; on a parsing failure the record is left as it was.
Tk_ConfigureWidget(ch, args, ok) ==
    IF ~ok THEN ch
    ELSE [ch EXCEPT
            !.colorPtr = IF "-color" \in DOMAIN args THEN args["-color"] ELSE @,
            !.dashes = IF "-dashes" \in DOMAIN args THEN args["-dashes"] ELSE @,
            !.hidden = IF "-hide" \in DOMAIN args THEN args["-hide"] ELSE @,
            !.lineWidth = IF "-linewidth" \in DOMAIN args THEN args["-linewidth"] ELSE @,
            !.hotSpot = IF "-position" \in DOMAIN args THEN args["-position"] ELSE @]

CgetOp(g, st, ok) ==
    IF WinIsNull(g) THEN [st |-> st, rc |-> TCL_ERROR]
    ELSE [st |-> st, rc |-> IF ok THEN TCL_OK ELSE TCL_ERROR]

\* configure with no or one argument (argc 3 or 4): Tk_ConfigureInfo.
ConfigureInfoOp(g, st, ok) ==
    IF WinIsNull(g) THEN [st |-> st, rc |-> TCL_ERROR]
    ELSE [st |-> st, rc |-> IF ok THEN TCL_OK ELSE TCL_ERROR]

\* ConfigureOp that reconfigures although the options did not parse.
ConfigureOp_IgnoresParseError(g, st, args, ok) ==
    IF WinIsNull(g) THEN [st |-> st, rc |-> TCL_ERROR]
    ELSE [st |-> RbcConfigureCrosshairs(g,
                   [st EXCEPT !.ch = Tk_ConfigureWidget(st.ch, args, ok)]),
          rc |-> IF ok THEN TCL_OK ELSE TCL_ERROR]

\* configure with two or more arguments.
ConfigureOp(g, st, args, ok) ==
    IF WinIsNull(g) THEN [st |-> st, rc |-> TCL_ERROR]
    ELSE IF ~ok
    THEN [st |-> [st EXCEPT !.ch = Tk_ConfigureWidget(st.ch, args, FALSE)],
          rc |-> TCL_ERROR]
    ELSE [st |-> RbcConfigureCrosshairs(g,
                   [st EXCEPT !.ch = Tk_ConfigureWidget(st.ch, args, TRUE)]),
          rc |-> TCL_OK]

\* OnOp that clears hidden without calling TurnOnHairs.
OnOp_NoDraw(g, st) ==
    [st |-> [st EXCEPT !.ch.hidden = FALSE], rc |-> TCL_OK]

OnOp(g, st) ==
    IF st.ch.hidden
    THEN [st |-> [TurnOnHairs(g, st) EXCEPT !.ch.hidden = FALSE], rc |-> TCL_OK]
    ELSE [st |-> st, rc |-> TCL_OK]

\* OffOp without the test of the window.
OffOp_NoWindowTest(g, st) ==
    IF ~st.ch.hidden
    THEN [st |-> [TurnOffHairs(g, st) EXCEPT !.ch.hidden = TRUE], rc |-> TCL_OK]
    ELSE [st |-> st, rc |-> TCL_OK]

OffOp(g, st) ==
    IF WinIsNull(g) THEN [st |-> st, rc |-> TCL_ERROR]
    ELSE IF ~st.ch.hidden
    THEN [st |-> [TurnOffHairs(g, st) EXCEPT !.ch.hidden = TRUE], rc |-> TCL_OK]
    ELSE [st |-> st, rc |-> TCL_OK]

\* ToggleOp that hides whatever hidden was.
ToggleOp_AlwaysHides(g, st) ==
    IF WinIsNull(g) THEN [st |-> st, rc |-> TCL_ERROR]
    ELSE [st |-> TurnOffHairs(g, [st EXCEPT !.ch.hidden = TRUE]), rc |-> TCL_OK]

ToggleOp(g, st) ==
    IF WinIsNull(g) THEN [st |-> st, rc |-> TCL_ERROR]
    ELSE LET flipped == [st EXCEPT !.ch.hidden = ~st.ch.hidden]
         IN [st |-> IF flipped.ch.hidden
                    THEN TurnOffHairs(g, flipped)
                    ELSE TurnOnHairs(g, flipped),
             rc |-> TCL_OK]

\* ---------------------------------------------------------------- state
Cur == [ch |-> chPtr, calls |-> nDraws, drew |-> 0, intact |-> intact,
        gcs |-> gcs]

\* The handles a print command holds: the window DC, the DIB section, the
\* memory DC, the system palette and the printer DC the dialog returns.
Handles == {"hDC", "hBitmap", "memDC", "hPalette", "printDC"}

NoHandles == [h \in Handles |-> [acq |-> 0, rel |-> 0]]

NoJob == [docs |-> 0, docsEnded |-> 0, pages |-> 0, pagesEnded |-> 0]

NoFailure == [step |-> FALSE, after |-> FALSE]

NoSnap == [objc |-> 0, resolves |-> FALSE, W |-> 0, H |-> 0, PW |-> 0, PH |-> 0,
           size |-> [pageWidth |-> [n |-> 0, d |-> 1],
                     pageHeight |-> [n |-> 0, d |-> 1]],
           dest |-> [dw |-> 0, dh |-> 0]]

NoText == [objc |-> 0, printlen |-> 0, text_done |-> 0, low |-> 0, high |-> 0,
           textcount |-> 0, output |-> 0, bottom |-> 0, page |-> 0,
           begin_text |-> 0, chunks |-> <<>>]

\* No print command has been invoked.
PrintIdle ==
    /\ pc = "idle"
    /\ gdi = NoHandles
    /\ job = NoJob
    /\ calls = <<>>
    /\ result = "none"
    /\ msg = FALSE
    /\ failed = NoFailure
    /\ snap = NoSnap
    /\ txt = NoText

Init ==
    /\ PrintIdle
    /\ graph \in { [win |-> TRUE, mapped |-> FALSE, plotBg |-> NullColor,
                    left |-> a.left, right |-> a.right,
                    top |-> a.top, bottom |-> a.bottom] : a \in PlotAreas }
    /\ chPtr = RbcCreateCrosshairs
    /\ gcs = NoContexts
    /\ nDraws = 0
    /\ intact = TRUE
    /\ lastOp = "create"
    /\ rc = TCL_OK
    /\ drew = 0
    /\ argsOk = TRUE
    /\ twice = FALSE

\* The state an operation leaves, with its name, result and draw calls.
Return(op, res, ok) ==
    /\ ~gcs.destroyed
    /\ chPtr' = res.st.ch
    /\ gcs' = res.st.gcs
    /\ nDraws' = res.st.calls
    /\ intact' = res.st.intact
    /\ lastOp' = op
    /\ rc' = res.rc
    /\ drew' = res.st.drew
    /\ argsOk' = ok
    /\ twice' = (lastOp = op /\ op \in {"enable", "disable", "toggle"})
    /\ UNCHANGED pvars

Void(st) == [st |-> st, rc |-> TCL_OK]

\* The environment: the window is mapped, unmapped or destroyed, and the
\* graph layout moves the plot area.
Environment(g) ==
    /\ ~gcs.destroyed
    /\ graph' = g
    /\ lastOp' = "environment"
    /\ rc' = TCL_OK
    /\ drew' = 0
    /\ argsOk' = TRUE
    /\ twice' = FALSE
    /\ UNCHANGED <<chPtr, nDraws, intact, gcs>>
    /\ UNCHANGED pvars

MapWindow ==
    /\ graph.win /\ ~graph.mapped
    /\ Environment([graph EXCEPT !.mapped = TRUE])

UnmapWindow ==
    /\ graph.win /\ graph.mapped
    /\ Environment([graph EXCEPT !.mapped = FALSE])

DestroyWindow ==
    /\ graph.win
    /\ Environment([graph EXCEPT !.win = FALSE, !.mapped = FALSE])

LayoutGraph ==
    \E a \in PlotAreas :
        /\ [left |-> graph.left, right |-> graph.right,
            top |-> graph.top, bottom |-> graph.bottom] # a
        /\ Environment(
             [graph EXCEPT !.left = a.left, !.right = a.right,
                           !.top = a.top, !.bottom = a.bottom])

\* ---------------------------------------------------------------- actions
Configure ==
    /\ Return("RbcConfigureCrosshairs", Void(RbcConfigureCrosshairs(graph, Cur)), TRUE)
    /\ UNCHANGED graph

Enable ==
    /\ Return("enable", Void(RbcEnableCrosshairs(graph, Cur)), TRUE)
    /\ UNCHANGED graph

Disable ==
    /\ Return("disable", Void(RbcDisableCrosshairs(graph, Cur)), TRUE)
    /\ UNCHANGED graph

Update ==
    /\ Return("updateGeometry", Void(RbcUpdateCrosshairs(graph, Cur)), TRUE)
    /\ UNCHANGED graph

\* cget with an option name that is (ok) or is not (~ok) an option.
Cget ==
    \E ok \in BOOLEAN :
        /\ Return("cget", CgetOp(graph, Cur, ok), ok)
        /\ UNCHANGED graph

ConfigureInfo ==
    \E ok \in BOOLEAN :
        /\ Return("configureInfo", ConfigureInfoOp(graph, Cur, ok), ok)
        /\ UNCHANGED graph

ConfigureCmd ==
    \E args \in ArgLists :
        /\ Return("configure", ConfigureOp(graph, Cur, args, TRUE), TRUE)
        /\ UNCHANGED graph

\* configure with an option whose value does not parse.
ConfigureBad ==
    \E args \in BadArgLists :
        /\ Return("configure", ConfigureOp(graph, Cur, args, FALSE), FALSE)
        /\ UNCHANGED graph

On ==
    /\ Return("on", OnOp(graph, Cur), TRUE)
    /\ UNCHANGED graph

Off ==
    /\ Return("off", OffOp(graph, Cur), TRUE)
    /\ UNCHANGED graph

Toggle ==
    /\ Return("toggle", ToggleOp(graph, Cur), TRUE)
    /\ UNCHANGED graph

\* The graph widget is destroyed and its crosshairs with it.
Destroy ==
    /\ Return("destroy", Void(RbcDestroyCrosshairs(graph, Cur)), TRUE)
    /\ UNCHANGED graph

Next ==
    \/ MapWindow
    \/ UnmapWindow
    \/ DestroyWindow
    \/ LayoutGraph
    \/ Configure
    \/ Enable
    \/ Disable
    \/ Update
    \/ Cget
    \/ ConfigureInfo
    \/ ConfigureCmd
    \/ ConfigureBad
    \/ On
    \/ Off
    \/ Toggle
    \/ Destroy

Spec == Init /\ [][Next]_vars

\* ------------------------------------------------ tkWinPrint.c: printing
\* Largest window width and height, in pixels.
MaxDim == 3

\* Largest printable width and height of the printer, in device units.
MaxRes == 4

Dims == 1..MaxDim

Resolutions == 1..MaxRes

\* What StartDoc, StartPage, EndPage and EndDoc return: greater than zero
\* on success, zero or negative on failure.
JobOutcomes == {1, 0, -1}

JobFailed(ret) == ret <= 0

Acquire(g, h) == [g EXCEPT ![h].acq = @ + 1]

\* DeleteObject, DeleteDC, ReleaseDC: nothing is released through a NULL
\* handle.
Release(g, h) == IF g[h].acq = 0 THEN g ELSE [g EXCEPT ![h].rel = @ + 1]

\* The doubles of the scale computation, as exact fractions.
Frac(n, d) == [n |-> n, d |-> d]

FracLeq(a, b) == a.n * b.d <= b.n * a.d

fmin_TakesLarger(a, b) == IF FracLeq(a, b) THEN b ELSE a

fmin(a, b) == IF FracLeq(a, b) THEN a ELSE b

FracTimes(a, k) == [n |-> a.n * k, d |-> a.d]

\* A double passed for an int parameter is truncated toward zero.
DoubleToInt(a) == a.n \div a.d

\* sx, sy, scale, pageWidth and pageHeight for a W x H window on a printer
\* whose printable area is PW x PH.
PageSize(W, H, PW, PH) ==
    LET sx == Frac(PW, W)
        sy == Frac(PH, H)
        scale == fmin(sx, sy)
    IN  [pageWidth |-> FracTimes(scale, W), pageHeight |-> FracTimes(scale, H)]

\* The destination rectangle StretchDIBits receives.
StretchDest(size) ==
    [dw |-> DoubleToInt(size.pageWidth), dh |-> DoubleToInt(size.pageHeight)]

CanvasWrongNumArgs_OffByOne(objc) == objc < 1

CanvasWrongNumArgs(objc) == objc < 2

Log(c) == calls' = Append(calls, c)

Fail == failed' = [failed EXCEPT !.step = TRUE]

\* WinCanvasPrint up to the first call that is tested: the arguments, the
\* window DC, the DIB section, the memory DC and the palette.
CanvasEnter ==
    /\ pc = "idle"
    /\ \E objc \in 1..3, resolves \in BOOLEAN :
         IF CanvasWrongNumArgs(objc) \/ ~resolves
         THEN /\ pc' = "returned"
              /\ result' = TCL_ERROR
              /\ msg' = TRUE
              /\ snap' = [snap EXCEPT !.objc = objc, !.resolves = resolves]
              /\ UNCHANGED gdi
         ELSE \E W \in Dims, H \in Dims, bmp \in BOOLEAN, mem \in BOOLEAN,
                 pal \in BOOLEAN :
              /\ pc' = "BitBlt"
              /\ result' = TCL_ERROR
              /\ msg' = FALSE
              /\ gdi' = LET g1 == Acquire(gdi, "hDC")
                            g2 == IF bmp THEN Acquire(g1, "hBitmap") ELSE g1
                            g3 == IF mem THEN Acquire(g2, "memDC") ELSE g2
                        IN  IF pal THEN Acquire(g3, "hPalette") ELSE g3
              /\ snap' = [snap EXCEPT !.objc = objc, !.resolves = resolves,
                                       !.W = W, !.H = H]
    /\ UNCHANGED <<job, calls, failed, txt>>
    /\ UNCHANGED vars

\* A step that failed with a message and jumps to the done label.
CanvasGotoDone ==
    /\ pc' = "done"
    /\ msg' = TRUE
    /\ Fail

CanvasBitBlt ==
    /\ pc = "BitBlt"
    /\ \E ok \in BOOLEAN :
         /\ gdi["memDC"].acq = 0 => ~ok
         /\ IF ok
            THEN pc' = "GetObject" /\ UNCHANGED <<msg, failed>>
            ELSE CanvasGotoDone
    /\ UNCHANGED <<gdi, job, calls, result, snap, txt>>
    /\ UNCHANGED vars

CanvasGetObject ==
    /\ pc = "GetObject"
    /\ \E ok \in BOOLEAN :
         /\ gdi["hBitmap"].acq = 0 => ~ok
         /\ IF ok
            THEN pc' = "PrintDlg" /\ UNCHANGED <<msg, failed>>
            ELSE CanvasGotoDone
    /\ UNCHANGED <<gdi, job, calls, result, snap, txt>>
    /\ UNCHANGED vars

\* The dialog, the printer DC it returns and the page size computed from
\* the printer's resolution.
CanvasPrintDlg ==
    /\ pc = "PrintDlg"
    /\ Log("PrintDlg")
    /\ \E confirmed \in BOOLEAN, dc \in BOOLEAN :
         IF ~confirmed
         THEN /\ ~dc
              /\ pc' = "returned"
              /\ result' = TCL_ERROR
              /\ Fail
              /\ UNCHANGED <<gdi, msg, snap>>
         ELSE IF ~dc
         THEN /\ CanvasGotoDone
              /\ UNCHANGED <<gdi, result, snap>>
         ELSE \E PW \in Resolutions, PH \in Resolutions :
              /\ pc' = "StartDoc"
              /\ gdi' = Acquire(gdi, "printDC")
              /\ snap' = [snap EXCEPT !.PW = PW, !.PH = PH,
                              !.size = PageSize(snap.W, snap.H, PW, PH)]
              /\ UNCHANGED <<result, msg, failed>>
    /\ UNCHANGED <<job, txt>>
    /\ UNCHANGED vars

CanvasStartDoc ==
    /\ pc = "StartDoc"
    /\ Log("StartDoc")
    /\ \E jobId \in JobOutcomes :
         IF JobFailed(jobId)
         THEN CanvasGotoDone /\ UNCHANGED job
         ELSE /\ pc' = "StartPage"
              /\ job' = [job EXCEPT !.docs = @ + 1]
              /\ UNCHANGED <<msg, failed>>
    /\ UNCHANGED <<gdi, result, snap, txt>>
    /\ UNCHANGED vars

CanvasStartPage_Unchecked ==
    /\ pc = "StartPage"
    /\ Log("StartPage")
    /\ \E ret \in JobOutcomes :
         job' = IF JobFailed(ret) THEN job ELSE [job EXCEPT !.pages = @ + 1]
    /\ pc' = "StretchDIBits"
    /\ UNCHANGED <<gdi, result, msg, failed, snap, txt>>
    /\ UNCHANGED vars

CanvasStartPage ==
    /\ pc = "StartPage"
    /\ Log("StartPage")
    /\ \E ret \in JobOutcomes :
         IF JobFailed(ret)
         THEN CanvasGotoDone /\ UNCHANGED job
         ELSE /\ pc' = "StretchDIBits"
              /\ job' = [job EXCEPT !.pages = @ + 1]
              /\ UNCHANGED <<msg, failed>>
    /\ UNCHANGED <<gdi, result, snap, txt>>
    /\ UNCHANGED vars

\* The return value of StretchDIBits is not looked at.
CanvasStretchDIBits ==
    /\ pc = "StretchDIBits"
    /\ Log("StretchDIBits")
    /\ snap' = [snap EXCEPT !.dest = StretchDest(snap.size)]
    /\ \E ok \in BOOLEAN : IF ok THEN UNCHANGED failed ELSE Fail
    /\ pc' = "EndPage"
    /\ UNCHANGED <<gdi, job, result, msg, txt>>
    /\ UNCHANGED vars

\* Nor is the return value of EndPage.
CanvasEndPage ==
    /\ pc = "EndPage"
    /\ Log("EndPage")
    /\ \E ret \in JobOutcomes :
         IF JobFailed(ret)
         THEN Fail /\ UNCHANGED job
         ELSE job' = [job EXCEPT !.pagesEnded = @ + 1] /\ UNCHANGED failed
    /\ pc' = "EndDoc"
    /\ UNCHANGED <<gdi, result, msg, snap, txt>>
    /\ UNCHANGED vars

\* EndDoc, DeleteDC(printDC) and result = TCL_OK.
CanvasEndDoc ==
    /\ pc = "EndDoc"
    /\ Log("EndDoc")
    /\ \E ret \in JobOutcomes :
         IF JobFailed(ret)
         THEN Fail /\ UNCHANGED job
         ELSE job' = [job EXCEPT !.docsEnded = @ + 1] /\ UNCHANGED failed
    /\ gdi' = Release(gdi, "printDC")
    /\ result' = TCL_OK
    /\ pc' = "done"
    /\ UNCHANGED <<msg, snap, txt>>
    /\ UNCHANGED vars

\* The done label: the bitmap, the memory DC, the window DC and the
\* palette are released and result is returned.
CanvasDone ==
    /\ pc = "done"
    /\ gdi' = Release(Release(Release(Release(gdi, "hBitmap"), "memDC"),
                              "hDC"), "hPalette")
    /\ pc' = "returned"
    /\ UNCHANGED <<job, calls, result, msg, failed, snap, txt>>
    /\ UNCHANGED vars

\* Longest text buffer, in characters.
MaxLen == 4

TextLengths == 0..MaxLen

\* r.bottom, in units of the height DrawText measures: from a page too
\* short for one character to one that takes the longest buffer with room
\* to spare.
Bottoms == 0..(MaxLen + 1)

\* The height DrawText measures for the first n characters: one character
\* a line, one unit a line.
DrawTextHeight(n) == n

SearchStep_NoLastStep(low, high, textcount, testheight, bottom) ==
    LET low1 == IF testheight < bottom THEN textcount ELSE low
        high1 == IF testheight > bottom THEN textcount ELSE high
    IN  [low |-> low1, high |-> high1,
         textcount |-> IF low1 < high1
                       THEN low1 + ((high1 - low1) \div 2)
                       ELSE textcount]

\* The body of the search loop: one measurement has been made.
SearchStep(low, high, textcount, testheight, bottom) ==
    LET low1 == IF testheight < bottom THEN textcount ELSE low
        high1 == IF testheight > bottom THEN textcount ELSE high
        low2 == IF low1 = high1 - 1 THEN high1 ELSE low1
    IN  [low |-> low2, high |-> high1,
         textcount |-> IF low2 < high1
                       THEN low2 + ((high1 - low2) \div 2)
                       ELSE textcount]

\* while (textrange_low < textrange_high) { ...; break; }: the body runs
\* once at most.
SearchLoop(low, high, textcount, testheight, bottom) ==
    IF low < high
    THEN SearchStep(low, high, textcount, testheight, bottom)
    ELSE [low |-> low, high |-> high, textcount |-> textcount]

TextWrongNumArgs(objc) == objc /= 2

\* What one drawing DrawText puts on a page: textcount characters from
\* begin_text, an offset into printbuffer.
Chunk(t) == [begin |-> t.begin_text, count |-> t.textcount]

TextLoopTest_NoLengthTest(t) == t.output >= 0

\* for (...; (output >= 0) && (text_done < printlen); ...)
TextLoopTest(t) == t.output >= 0 /\ t.text_done < t.printlen

\* A StartPage or DrawText call made after a step has failed.
Late == failed' = [failed EXCEPT !.after = @ \/ failed.step]

\* A return with the message the failed step left.
TextReturnError ==
    /\ pc' = "returned"
    /\ result' = TCL_ERROR
    /\ msg' = TRUE

TextEnter ==
    /\ pc = "idle"
    /\ \E objc \in 1..3 :
         /\ txt' = [txt EXCEPT !.objc = objc]
         /\ IF TextWrongNumArgs(objc)
            THEN TextReturnError
            ELSE pc' = "T_PrintDlg" /\ result' = TCL_OK /\ msg' = FALSE
    /\ UNCHANGED <<gdi, job, calls, failed, snap>>
    /\ UNCHANGED vars

\* The dialog, the printer DC it returns, the buffer and the page rectangle.
TextPrintDlg ==
    /\ pc = "T_PrintDlg"
    /\ Log("PrintDlg")
    /\ \E confirmed \in BOOLEAN, dc \in BOOLEAN :
         IF ~confirmed
         THEN /\ ~dc
              /\ pc' = "returned"
              /\ Fail
              /\ UNCHANGED <<gdi, result, msg, txt>>
         ELSE IF ~dc
         THEN /\ TextReturnError
              /\ Fail
              /\ UNCHANGED <<gdi, txt>>
         ELSE \E bufferlen \in TextLengths, bottom \in Bottoms :
              /\ pc' = "T_StartDoc"
              /\ gdi' = Acquire(gdi, "printDC")
              /\ txt' = [txt EXCEPT !.printlen = bufferlen, !.text_done = 0,
                             !.bottom = bottom]
              /\ UNCHANGED <<result, msg, failed>>
    /\ UNCHANGED <<job, snap>>
    /\ UNCHANGED vars

TextStartDoc ==
    /\ pc = "T_StartDoc"
    /\ Log("StartDoc")
    /\ \E output \in JobOutcomes :
         /\ txt' = [txt EXCEPT !.output = output]
         /\ IF output = 0
            THEN TextReturnError /\ Fail /\ UNCHANGED job
            ELSE /\ pc' = "T_Loop"
                 /\ IF JobFailed(output)
                    THEN Fail /\ UNCHANGED job
                    ELSE job' = [job EXCEPT !.docs = @ + 1] /\ UNCHANGED failed
                 /\ UNCHANGED <<result, msg>>
    /\ UNCHANGED <<gdi, snap>>
    /\ UNCHANGED vars

\* The loop test and the search range of the page.
TextLoop ==
    /\ pc = "T_Loop"
    /\ IF TextLoopTest(txt)
       THEN /\ pc' = "T_StartPage"
            /\ txt' = [txt EXCEPT !.low = 0,
                                  !.high = txt.printlen - txt.text_done,
                                  !.textcount = txt.printlen - txt.text_done]
       ELSE pc' = "T_EndDoc" /\ UNCHANGED txt
    /\ UNCHANGED <<gdi, job, calls, result, msg, failed, snap>>
    /\ UNCHANGED vars

TextStartPage ==
    /\ pc = "T_StartPage"
    /\ Log("StartPage")
    /\ \E output \in JobOutcomes :
         /\ txt' = [txt EXCEPT !.output = output]
         /\ IF output = 0
            THEN /\ TextReturnError
                 /\ failed' = [step |-> TRUE, after |-> failed.after \/ failed.step]
                 /\ UNCHANGED job
            ELSE /\ pc' = "T_Measure"
                 /\ IF JobFailed(output)
                    THEN /\ failed' = [step |-> TRUE,
                                       after |-> failed.after \/ failed.step]
                         /\ UNCHANGED job
                    ELSE job' = [job EXCEPT !.pages = @ + 1] /\ Late
                 /\ UNCHANGED <<result, msg>>
    /\ UNCHANGED <<gdi, snap>>
    /\ UNCHANGED vars

\* The measuring DrawText, zero when it fails, and the search.
TextMeasure ==
    /\ pc = "T_Measure"
    /\ IF txt.low < txt.high
       THEN /\ Log("DrawText")
            /\ \E ok \in BOOLEAN :
                 LET testheight == IF ok THEN DrawTextHeight(txt.textcount)
                                         ELSE 0
                     s == SearchLoop(txt.low, txt.high, txt.textcount,
                                     testheight, txt.bottom)
                 IN  /\ txt' = [txt EXCEPT !.low = s.low, !.high = s.high,
                                           !.textcount = s.textcount]
                     /\ failed' = [step |-> failed.step \/ ~ok,
                                   after |-> failed.after \/ failed.step]
       ELSE UNCHANGED <<calls, txt, failed>>
    /\ pc' = "T_Draw"
    /\ UNCHANGED <<gdi, job, result, msg, snap>>
    /\ UNCHANGED vars

\* The drawing DrawText and the advance of the cursor.
TextDraw ==
    /\ pc = "T_Draw"
    /\ Log("DrawText")
    /\ \E output \in {0, 1} :
         IF output = 0
         THEN /\ TextReturnError
              /\ failed' = [step |-> TRUE, after |-> failed.after \/ failed.step]
              /\ txt' = [txt EXCEPT !.output = output]
         ELSE /\ pc' = "T_EndPage"
              /\ Late
              /\ txt' = [txt EXCEPT !.output = output,
                                    !.chunks = Append(@, Chunk(txt)),
                                    !.begin_text = @ + txt.textcount,
                                    !.text_done = @ + txt.textcount]
              /\ UNCHANGED <<result, msg>>
    /\ UNCHANGED <<gdi, job, snap>>
    /\ UNCHANGED vars

TextEndPage ==
    /\ pc = "T_EndPage"
    /\ Log("EndPage")
    /\ \E output \in JobOutcomes :
         /\ job.pages = job.pagesEnded => JobFailed(output)
         /\ IF output = 0
            THEN /\ TextReturnError
                 /\ Fail
                 /\ txt' = [txt EXCEPT !.output = output]
                 /\ UNCHANGED job
            ELSE /\ pc' = "T_Loop"
                 /\ txt' = [txt EXCEPT !.output = output, !.page = @ + 1]
                 /\ IF JobFailed(output)
                    THEN Fail /\ UNCHANGED job
                    ELSE /\ job' = [job EXCEPT !.pagesEnded = @ + 1]
                         /\ UNCHANGED failed
                 /\ UNCHANGED <<result, msg>>
    /\ UNCHANGED <<gdi, snap>>
    /\ UNCHANGED vars

\* EndDoc, DeleteDC(hDC) and result = TCL_OK.
TextEndDoc ==
    /\ pc = "T_EndDoc"
    /\ Log("EndDoc")
    /\ \E ret \in JobOutcomes :
         /\ job.docs = job.docsEnded => JobFailed(ret)
         /\ IF JobFailed(ret)
            THEN Fail /\ UNCHANGED job
            ELSE job' = [job EXCEPT !.docsEnded = @ + 1] /\ UNCHANGED failed
    /\ gdi' = Release(gdi, "printDC")
    /\ result' = TCL_OK
    /\ pc' = "returned"
    /\ UNCHANGED <<msg, snap, txt>>
    /\ UNCHANGED vars

\* Before a print command is invoked the crosshairs are as created.
PrintInit ==
    /\ PrintIdle
    /\ graph = [win |-> TRUE, mapped |-> FALSE, plotBg |-> NullColor,
                left |-> 0, right |-> 0, top |-> 0, bottom |-> 0]
    /\ chPtr = RbcCreateCrosshairs
    /\ gcs = NoContexts
    /\ nDraws = 0
    /\ intact = TRUE
    /\ lastOp = "create"
    /\ rc = TCL_OK
    /\ drew = 0
    /\ argsOk = TRUE
    /\ twice = FALSE

PrintNext ==
    \/ CanvasEnter
    \/ CanvasBitBlt
    \/ CanvasGetObject
    \/ CanvasPrintDlg
    \/ CanvasStartDoc
    \/ CanvasStartPage
    \/ CanvasStretchDIBits
    \/ CanvasEndPage
    \/ CanvasEndDoc
    \/ CanvasDone
    \/ TextEnter
    \/ TextPrintDlg
    \/ TextStartDoc
    \/ TextLoop
    \/ TextStartPage
    \/ TextMeasure
    \/ TextDraw
    \/ TextEndPage
    \/ TextEndDoc

PrintSpec == PrintInit /\ [][PrintNext]_pvars

\* ------------------------------------------------------------ properties
Commands == {"cget", "configureInfo", "configure", "on", "off", "toggle"}

Operations == Commands \cup {"enable", "disable"}

ConfigureOps == {"configure", "RbcConfigureCrosshairs"}

\* C1: the visible flag is TRUE exactly when the number of XDrawSegments
\* calls issued since create is odd, whatever operations were called and
\* whether the window was mapped or not.
C1_VisibleIsDrawParity == chPtr.visible <=> (nDraws % 2 = 1)

\* A configure that erased and redrew: two draw calls, the overlay visible.
C1_Witness == drew = 2 /\ chPtr.visible /\ nDraws % 2 = 1

\* C2: at rest, hidden == TRUE implies visible == FALSE.
C2_HiddenImpliesNotVisible == chPtr.hidden => ~chPtr.visible

C4_NeverErrorWithoutWindow ==
    (lastOp \in Operations /\ argsOk /\ ~Tk_IsMapped(graph)) => rc = TCL_OK

\* C4 as amended: with the window unmapped or missing no operation issues a
\* draw call; with valid options the result is TCL_ERROR exactly when the
\* window is missing and the command is cget, configure, off or toggle, and
\* then the record is unchanged.
C4_WithoutWindow ==
    [][ (lastOp' \in Operations /\ argsOk' /\ ~Tk_IsMapped(graph))
        => /\ drew' = 0 /\ nDraws' = nDraws
           /\ rc' = TCL_ERROR <=>
                (~graph.win /\ lastOp' \in Commands \ {"on"})
           /\ rc' = TCL_ERROR => chPtr' = chPtr ]_vars

\* A toggle with the window missing returned TCL_ERROR.
C4_Witness == lastOp = "toggle" /\ ~graph.win /\ rc = TCL_ERROR

\* C5: after RbcConfigureCrosshairs, a hot spot outside the plot bounds
\* means the overlay is not drawn.
C5_OffPlotNotDrawn ==
    (lastOp \in ConfigureOps /\ rc = TCL_OK /\ OffGraph(chPtr.hotSpot, graph))
        => ~chPtr.visible

\* C6: RbcEnableCrosshairs issues at most one draw call; called again right
\* after itself, or with hidden set, it issues none and changes nothing.
C6_EnableIdempotent ==
    [][ lastOp' = "enable"
        => /\ drew' <= 1
           /\ (lastOp = "enable" \/ chPtr.hidden)
                => (drew' = 0 /\ nDraws' = nDraws /\ chPtr' = chPtr) ]_vars

\* The second of two consecutive enable calls, the overlay drawn.
C6_Witness ==
    /\ lastOp = "enable" /\ twice
    /\ chPtr.visible /\ ~chPtr.hidden /\ drew = 0

\* C7: RbcUpdateCrosshairs sets the vertical segment's y1, y2 and the
\* horizontal segment's x1, x2 from the plot bounds and changes nothing else
\* and draws nothing.
C7_UpdateChangesEndpointsOnly ==
    [][ lastOp' = "updateGeometry"
        => /\ chPtr' = [chPtr EXCEPT !.segArr = chPtr'.segArr]
           /\ chPtr'.segArr[1] = [chPtr.segArr[1] EXCEPT !.y1 = graph.bottom,
                                                         !.y2 = graph.top]
           /\ chPtr'.segArr[2] = [chPtr.segArr[2] EXCEPT !.x1 = graph.left,
                                                         !.x2 = graph.right]
           /\ drew' = 0 /\ nDraws' = nDraws ]_vars

\* An update after a layout change, the overlay drawn: the endpoints moved.
C7_Witness ==
    /\ lastOp = "updateGeometry" /\ chPtr.visible /\ ~intact
    /\ chPtr.segArr[2].x2 = graph.right

\* C8: a configure command whose options do not parse returns TCL_ERROR,
\* leaves the whole record as it was and issues no draw call.
C8_ParseErrorChangesNothing ==
    [][ (lastOp' = "configure" /\ ~argsOk')
        => /\ rc' = TCL_ERROR
           /\ chPtr' = chPtr
           /\ drew' = 0 /\ nDraws' = nDraws ]_vars

\* A failed configure of a mapped window with the overlay drawn.
C8_Witness ==
    /\ lastOp = "configure" /\ ~argsOk /\ rc = TCL_ERROR
    /\ graph.mapped /\ chPtr.visible

\* C9 as stated: on ends with hidden FALSE, and with the overlay drawn
\* whenever hidden was TRUE before.
C9_OnDraws ==
    [][ lastOp' = "on"
        => (~chPtr'.hidden /\ (chPtr.hidden => chPtr'.visible)) ]_vars

\* C9 as amended: on ends with hidden FALSE, and with the overlay drawn
\* whenever hidden was TRUE before, the window is mapped and the hot spot
\* lies within the plot bounds.
C9_OnDrawsWhenOnPlot ==
    [][ lastOp' = "on"
        => /\ ~chPtr'.hidden
           /\ rc' = TCL_OK
           /\ (chPtr.hidden /\ Tk_IsMapped(graph)
                 /\ ~OffGraph(chPtr.hotSpot, graph)) => chPtr'.visible ]_vars

\* An on command that drew the overlay.
C9_Witness ==
    lastOp = "on" /\ drew = 1 /\ chPtr.visible /\ ~chPtr.hidden

\* C10: after RbcDisableCrosshairs visible is FALSE and hidden is as before;
\* called again right after itself it changes nothing and draws nothing.
C10_DisableNotDrawn ==
    [][ lastOp' = "disable"
        => /\ ~chPtr'.visible
           /\ chPtr'.hidden = chPtr.hidden
           /\ lastOp = "disable" => (drew' = 0 /\ chPtr' = chPtr) ]_vars

ToggleTwice == ToggleOp(graph, ToggleOp(graph, Cur).st).st

\* visible tells what is to be displayed: the overlay is drawn exactly when
\* it is not hidden and the hot spot is inside the plot area.
Displayed == chPtr.visible <=> (~chPtr.hidden /\ ~OffGraph(chPtr.hotSpot, graph))

\* C24 as claimed: from every reachable state with an existing, mapped
\* window, two consecutive toggle commands restore hidden and visible to
\* their values before the first toggle and issue 0 or 2 draw calls.
C24_ToggleInvolution ==
    (Tk_IsMapped(graph) /\ ~gcs.destroyed)
        => /\ ToggleTwice.ch.hidden = chPtr.hidden
           /\ ToggleTwice.ch.visible = chPtr.visible
           /\ ToggleTwice.drew \in {0, 2}

\* C24, amended: with an existing, mapped window two consecutive toggle
\* commands always restore hidden; they restore visible and issue 0 or 2
\* draw calls exactly when, before the first toggle, visible was TRUE iff
\* the crosshairs were not hidden and the hot spot was inside the plot
\* area. From the other states they leave visible changed and issue one
\* draw call.
C24_ToggleRestores ==
    (Tk_IsMapped(graph) /\ ~gcs.destroyed)
        => /\ ToggleTwice.ch.hidden = chPtr.hidden
           /\ Displayed =>
                 /\ ToggleTwice.ch.visible = chPtr.visible
                 /\ ToggleTwice.drew \in {0, 2}
           /\ ~Displayed =>
                 /\ ToggleTwice.ch.visible # chPtr.visible
                 /\ ToggleTwice.drew = 1

\* The second of two toggles on a mapped window has redrawn the overlay the
\* first one erased.
C24_Witness ==
    /\ twice /\ lastOp = "toggle" /\ Tk_IsMapped(graph)
    /\ chPtr.visible /\ ~chPtr.hidden /\ drew = 1

\* C25: no draw or erase call is issued with a null drawing context: in
\* every sequence of operations after create, on, toggle and enable before
\* the first configure included, each XDrawSegments call happens after a
\* configure has installed a context.
C25_NoDrawWithNullGC ==
    /\ ~gcs.nullDraw
    /\ drew > 0 => chPtr.gc # NullGC

\* on before any configure, on a mapped window: nothing is drawn, the
\* context is still null.
C25_Witness ==
    /\ lastOp = "on" /\ Tk_IsMapped(graph) /\ ~chPtr.hidden
    /\ chPtr.gc = NullGC /\ drew = 0

\* --------------------------------------------------- properties, printing
\* Canvas-print got past its argument and window tests.
CanvasResolved == snap.W > 0

CanvasReturned == pc = "returned" /\ CanvasResolved

TextInvoked == txt.objc > 0

TextReturned == pc = "returned" /\ TextInvoked

NoSideEffect == calls = <<>> /\ gdi = NoHandles /\ job = NoJob

\* C11: on every exit path of canvas-print once the window is resolved
\* (success, dialog cancelled, blit failure, DIB query failure, null printer
\* DC, StartDoc failure, StartPage failure) every handle acquired so far
\* (window DC, bitmap, memory DC, palette, printer DC) has been released
\* exactly once.
C11_HandlesReleasedOnce ==
    CanvasReturned => \A h \in Handles : gdi[h].rel = gdi[h].acq

\* C12: when canvas-print returns no job is left open: every document
\* started with StartDoc has been ended and every page started with
\* StartPage has been ended.
C12_NoJobLeftOpen ==
    CanvasReturned => (job.docsEnded = job.docs /\ job.pagesEnded = job.pages)

\* C13: argument validation precedes every side effect. Canvas-print called
\* without a window argument or with a name that resolves to no window, and
\* text-print called with an argument count other than one text argument,
\* return an error with no dialog shown, no handle acquired and no document
\* or page started.
C13_ValidationFirst ==
    /\ (snap.objc > 0 /\ (snap.objc < 2 \/ ~snap.resolves))
          => (pc = "returned" /\ result = TCL_ERROR /\ NoSideEffect)
    /\ (txt.objc > 0 /\ txt.objc /= 2)
          => (pc = "returned" /\ result = TCL_ERROR /\ NoSideEffect)

\* Canvas-print has returned the error for a name that is no window.
C13_Witness ==
    /\ pc = "returned" /\ snap.objc = 2 /\ ~snap.resolves
    /\ result = TCL_ERROR /\ NoSideEffect

Called(c) == \E i \in DOMAIN calls : calls[i] = c

\* Canvas-print has computed pageWidth and pageHeight.
CanvasScaled == CanvasResolved /\ snap.PW > 0

\* Canvas-print has handed the destination size to StretchDIBits.
CanvasStretched == CanvasResolved /\ Called("StretchDIBits")

CanvasInvoked == snap.objc > 0

OnePageJob ==
    <<"PrintDlg", "StartDoc", "StartPage", "StretchDIBits", "EndPage",
      "EndDoc">>

\* C15: a canvas-print that returns TCL_OK has made exactly one page: the
\* dialog, then StartDoc, StartPage, one StretchDIBits, EndPage and EndDoc,
\* each once and in that order, the document and the page having started;
\* TCL_OK is returned along no other path.
C15_OnePageInOrder ==
    (pc = "returned" /\ CanvasInvoked /\ result = TCL_OK)
        => (calls = OnePageJob /\ job.docs = 1 /\ job.pages = 1)

\* A canvas-print that went through and returned TCL_OK.
C15_Witness ==
    /\ pc = "returned" /\ CanvasInvoked /\ result = TCL_OK
    /\ Len(calls) = 6 /\ job.docsEnded = 1 /\ job.pagesEnded = 1
    /\ ~failed.step

\* Text-print has chosen the count of the page and is about to draw it.
TextChosen == pc = "T_Draw"

Remaining == txt.printlen - txt.text_done

\* The counts of the remaining text whose measured height does not exceed
\* the page height.
Fitting == {n \in 0..Remaining : DrawTextHeight(n) <= txt.bottom}

LargestFitting == CHOOSE n \in Fitting : \A m \in Fitting : m <= n

StartPages == Cardinality({i \in DOMAIN calls : calls[i] = "StartPage"})

\* C16: on a page that takes at least one character, with every
\* measurement made and the measured height nondecreasing in the count, the
\* count chosen for the page is the largest count in 0..remaining whose
\* measured height does not exceed the page height; the search keeps
\* low <= answer <= high and ends only when high - low <= 1.
C16_LargestFittingChosen ==
    (TextChosen /\ ~failed.step /\ txt.bottom >= 1)
        => /\ txt.textcount = LargestFitting
           /\ txt.low <= LargestFitting /\ LargestFitting <= txt.high
           /\ txt.high - txt.low <= 1

\* C17: the prefix drawn on a page fits the page: for a buffer of L
\* characters and a page that takes exactly K >= 1 characters, the selected
\* count is at most K.
C17_PrefixFitsPage ==
    (TextChosen /\ ~failed.step /\ txt.bottom >= 1)
        => DrawTextHeight(txt.textcount) <= txt.bottom

\* C18: pagination makes progress: for every non-empty remainder and every
\* outcome of the measurement, a failed one included, the selected count is
\* at least 1 and at most the remaining length, and no more pages are
\* started than the buffer has characters.
C18_ForwardProgress ==
    TextInvoked =>
        /\ TextChosen => (1 <= txt.textcount /\ txt.textcount <= Remaining)
        /\ txt.text_done <= txt.printlen
        /\ txt.page <= txt.printlen
        /\ StartPages <= txt.printlen

\* Four characters printed on three pages of 2, 1 and 1 characters.
C18_Witness ==
    /\ TextReturned /\ result = TCL_OK
    /\ txt.printlen = 4 /\ txt.text_done = 4 /\ txt.page = 3

\* C19: a failure of any step of text-print (the print dialog, StartDoc,
\* StartPage, measuring or drawing text, EndPage) aborts at once: the
\* command returns TCL_ERROR with a message and makes no StartPage or
\* DrawText call after the failure.
C19_TextFailureAborts ==
    (TextReturned /\ failed.step)
        => (result = TCL_ERROR /\ msg /\ ~failed.after)

\* C20: no failure of canvas-print is swallowed: when a step fails (dialog
\* not confirmed, blit, DIB query, printer DC, StartDoc, StartPage, the
\* scaled blit, EndPage, EndDoc) the command returns TCL_ERROR with a
\* message, and TCL_OK is returned only when every step succeeded.
C20_CanvasFailureReported ==
    (pc = "returned" /\ CanvasResolved)
        => /\ failed.step => (result = TCL_ERROR /\ msg)
           /\ result = TCL_OK => ~failed.step

\* The print dialog of text-print returned a printer DC.
TextHasDC == TextInvoked /\ gdi["printDC"].acq > 0

\* C21: on every exit path of text-print after the print dialog has
\* returned a printer DC (success and the early error returns on StartDoc,
\* StartPage, DrawText and EndPage failure) the printer DC has been deleted
\* exactly once and a started document has been ended before the return.
C21_TextDCDeletedOnce ==
    (TextReturned /\ TextHasDC)
        => (gdi["printDC"].rel = 1 /\ job.docsEnded = job.docs)

\* The chunks drawn so far start at the buffer's first character and each
\* starts where the one before it ended.
Contiguous(chunks) ==
    \A i \in DOMAIN chunks :
        chunks[i].begin = (IF i = 1 THEN 0
                           ELSE chunks[i - 1].begin + chunks[i - 1].count)

\* C22: on a text-print of a buffer of length L that returns TCL_OK the
\* chunks drawn on successive pages are contiguous, non-overlapping and in
\* buffer order and their concatenation is the whole buffer: the cursor
\* advances by exactly the drawn count after each page, never exceeds L, and
\* equals L when the loop ends.
C22_ChunksCoverBuffer ==
    TextHasDC =>
        /\ Contiguous(txt.chunks)
        /\ txt.begin_text = txt.text_done
        /\ txt.text_done <= txt.printlen
        /\ (pc = "returned" /\ result = TCL_OK) => txt.text_done = txt.printlen

EmptyJob == <<"PrintDlg", "StartDoc", "EndDoc">>

\* C26: for a zero-length buffer with a confirmed print dialog and a
\* successful StartDoc, text-print starts no page and draws no text: the
\* device calls are StartDoc, EndDoc and DeleteDC and the command returns
\* TCL_OK.
C26_EmptyBufferEmptyJob ==
    (TextHasDC /\ txt.printlen = 0)
        => /\ ~Called("StartPage") /\ ~Called("DrawText")
           /\ (pc = "returned" /\ job.docs = 1)
                 => /\ calls = EmptyJob
                    /\ gdi["printDC"].rel = 1
                    /\ result = TCL_OK /\ ~msg

\* A zero-length buffer whose document started, returned.
C26_Witness ==
    /\ TextReturned /\ TextHasDC /\ txt.printlen = 0 /\ job.docs = 1
    /\ Len(calls) = 3 /\ result = TCL_OK

====
